---- MODULE Spec2Model ----
(***************************************************************************)
(* Model of zad5.cpp: an approximation of PI by the midpoint rule over     *)
(* [0,1], split over num_threads std::thread workers which add their       *)
(* partial integrals to total_result under result_mutex.                   *)
(***************************************************************************)
EXTENDS Integers, Sequences, FiniteSets, TLC

(***************************************************************************)
(* Bounds of the model.                                                    *)
(***************************************************************************)
\* largest thread count typed in under Spec
MaxThreads == 3
\* step counts typed in under Spec range over -MaxNegSteps .. MaxSteps
MaxSteps == 10
MaxNegSteps == 1
\* width kept for unsigned long long (64 in the build); the stored step
\* count is the entered value modulo 2^ULLBits
ULLBits == 4
\* step counts typed in under FairSpec range over 0 .. MaxFairSteps
MaxFairSteps == 5
\* largest thread count typed in under SpecDispatch
MaxDispatchThreads == 50

(***************************************************************************)
(* IEEE-754 binary64 values, as far as main uses them for the intervals:   *)
(* 0.0, int -> double, 1.0 / n and i * d, each correctly rounded (round to *)
(* nearest, ties to even).  A positive double is [m, e], standing for      *)
(* M * 2^e, where the DBL_MANT_DIG-bit mantissa M, 2^52 <= M < 2^53, is    *)
(* kept as four limbs m = <<l1, l2, l3, l4>> of 16 bits (l1 holds the top  *)
(* DBL_MANT_DIG - 48 bits): M = ((l1 * 2^16 + l2) * 2^16 + l3) * 2^16 + l4 *)
(* 0.0 is the all-zero mantissa.                                           *)
(***************************************************************************)
DBL_MANT_DIG == 53

Limb == 2^16

\* the value of the mantissa's leading bit within the top limb
TopBit == 2^(DBL_MANT_DIG - 49)

DblZero == [m |-> <<0, 0, 0, 0>>, e |-> 0]

IsZero(d) == d.m = <<0, 0, 0, 0>>

RECURSIVE Pow2(_)
Pow2(k) == IF k = 0 THEN 1 ELSE 2 * Pow2(k - 1)

\* the least z with p * 2^z >= n
RECURSIVE Log2Up(_, _)
Log2Up(n, p) == IF p >= n THEN 0 ELSE 1 + Log2Up(n, 2 * p)

\* the mantissa m + 1 at exponent e; a carry out of the top limb renormalises
IncMant(m, e) ==
    LET c4 == (m[4] + 1) \div Limb
        c3 == (m[3] + c4) \div Limb
        c2 == (m[2] + c3) \div Limb
        l1 == m[1] + c2
    IN IF l1 = 2 * TopBit
       THEN [m |-> <<TopBit, 0, 0, 0>>, e |-> e + 1]
       ELSE [m |-> <<l1, (m[2] + c3) % Limb, (m[3] + c4) % Limb, (m[4] + 1) % Limb>>,
             e |-> e]

\* round to nearest, ties to even: the mantissa m at exponent e with a dropped
\* tail of value tail / unit of one unit in the last place, 0 <= tail < unit
RoundMant(m, e, tail, unit) ==
    IF 2 * tail > unit \/ (2 * tail = unit /\ m[4] % 2 = 1)
    THEN IncMant(m, e)
    ELSE [m |-> m, e |-> e]

\* t * 2^48 + <<m2, m3, m4>> with t >= TopBit, shifted right until the top limb
\* holds DBL_MANT_DIG - 48 bits, and rounded
Normalise(t, m2, m3, m4, e) ==
    LET s  == Log2Up(t + 1, 2 * TopBit)
        d  == Pow2(s)
        u  == Limb \div d
    IN RoundMant(<<t \div d,
                   (t % d) * u + m2 \div d,
                   (m2 % d) * u + m3 \div d,
                   (m3 % d) * u + m4 \div d>>,
                 e + s, m4 % d, d)

\* int -> double, for 0 <= v < 2^16 (exact)
DblFromInt(v) ==
    IF v = 0 THEN DblZero
    ELSE LET z == Log2Up(v + 1, 1)
         IN IF z <= DBL_MANT_DIG - 48
            THEN [m |-> <<v * Pow2(DBL_MANT_DIG - 48 - z), 0, 0, 0>>,
                  e |-> z - DBL_MANT_DIG]
            ELSE LET d == Pow2(z - (DBL_MANT_DIG - 48))
                 IN [m |-> <<v \div d, (v % d) * (Limb \div d), 0, 0>>,
                     e |-> z - DBL_MANT_DIG]

\* 1.0 / n for an int 1 <= n < 2^15: 2^z / n lies in [1, 2) for the least z
\* with 2^z >= n; the quotient's fraction is divided out limb by limb
DblOneOver(n) ==
    LET z  == Log2Up(n, 1)
        r0 == Pow2(z) - n
        q1 == (r0 * TopBit) \div n
        r1 == (r0 * TopBit) % n
        q2 == (r1 * Limb) \div n
        r2 == (r1 * Limb) % n
        q3 == (r2 * Limb) \div n
        r3 == (r2 * Limb) % n
        q4 == (r3 * Limb) \div n
        r4 == (r3 * Limb) % n
    IN RoundMant(<<TopBit + q1, q2, q3, q4>>, 1 - z - DBL_MANT_DIG, r4, n)

\* i * d for an int 0 <= i < 2^15: the exact product, rounded once
DblMulInt(i, d) ==
    IF i = 0 \/ IsZero(d) THEN DblZero
    ELSE LET p4 == d.m[4] * i
             p3 == d.m[3] * i + p4 \div Limb
             p2 == d.m[2] * i + p3 \div Limb
             t  == d.m[1] * i + p2 \div Limb
         IN Normalise(t, p2 % Limb, p3 % Limb, p4 % Limb, d.e)

\* a < b for doubles >= 0
DblLess(a, b) ==
    IF IsZero(b) THEN FALSE
    ELSE IF IsZero(a) THEN TRUE
    ELSE IF a.e # b.e THEN a.e < b.e
    ELSE \E x \in 1..4 : a.m[x] < b.m[x] /\ \A y \in 1..(x-1) : a.m[y] = b.m[y]

DblOne == DblFromInt(1)

(***************************************************************************)
(* Exact arithmetic, for what calculate_partial_integral computes when no  *)
(* operation rounds (SpecIntegral, SpecPartition).  The arguments, step_size, x and 4 / (1 + x * x) are  *)
(* fractions [n, d] of integers in lowest terms, d > 0.  The running sum   *)
(* and the result grow beyond the integers at hand and are fractions       *)
(* [n, d] of naturals written in base BigBase, least digit first, 0 = <<>>.*)
(***************************************************************************)
RECURSIVE Gcd(_, _)
Gcd(a, b) == IF b = 0 THEN a ELSE Gcd(b, a % b)

Abs(v) == IF v < 0 THEN 0 - v ELSE v

Q(n, d) ==
    LET g == Gcd(Abs(n), Abs(d))
    IN IF d < 0 THEN [n |-> (0 - n) \div g, d |-> (0 - d) \div g]
       ELSE [n |-> n \div g, d |-> d \div g]

QInt(v) == [n |-> v, d |-> 1]

QAdd(a, b) == Q(a.n * b.d + b.n * a.d, a.d * b.d)

QSub(a, b) == Q(a.n * b.d - b.n * a.d, a.d * b.d)

QMul(a, b) == Q(a.n * b.n, a.d * b.d)

QDiv(a, b) == Q(a.n * b.d, a.d * b.n)

QLess(a, b) == a.n * b.d < b.n * a.d

BigBase == 10^4

RECURSIVE Big(_)
\* the natural v in base BigBase
Big(v) == IF v = 0 THEN <<>> ELSE <<v % BigBase>> \o Big(v \div BigBase)

BigDigit(a, k) == IF k <= Len(a) THEN a[k] ELSE 0

RECURSIVE BigAddFrom(_, _, _, _)
BigAddFrom(a, b, k, carry) ==
    IF k > Len(a) /\ k > Len(b)
    THEN Big(carry)
    ELSE LET v == BigDigit(a, k) + BigDigit(b, k) + carry
         IN <<v % BigBase>> \o BigAddFrom(a, b, k + 1, v \div BigBase)

BigAdd(a, b) == BigAddFrom(a, b, 1, 0)

RECURSIVE BigScaleFrom(_, _, _, _)
BigScaleFrom(a, v, k, carry) ==
    IF k > Len(a)
    THEN Big(carry)
    ELSE LET w == a[k] * v + carry
         IN <<w % BigBase>> \o BigScaleFrom(a, v, k + 1, w \div BigBase)

\* a * v for a digit v
BigScale(a, v) == IF v = 0 THEN <<>> ELSE BigScaleFrom(a, v, 1, 0)

BigShift(a) == IF a = <<>> THEN <<>> ELSE <<0>> \o a

RECURSIVE BigMulFrom(_, _, _)
BigMulFrom(a, b, k) ==
    IF k > Len(b) THEN <<>>
    ELSE BigAdd(BigScale(a, b[k]), BigShift(BigMulFrom(a, b, k + 1)))

BigMul(a, b) == BigMulFrom(a, b, 1)

BigLess(a, b) ==
    IF Len(a) # Len(b) THEN Len(a) < Len(b)
    ELSE \E k \in 1..Len(a) :
             a[k] < b[k] /\ \A j \in (k + 1)..Len(a) : a[j] = b[j]

\* the fraction q >= 0 among the big fractions
R(q) == [n |-> Big(q.n), d |-> Big(q.d)]

RZero == R(QInt(0))

RAdd(a, b) ==
    [n |-> BigAdd(BigMul(a.n, b.d), BigMul(b.n, a.d)), d |-> BigMul(a.d, b.d)]

RMul(a, b) == [n |-> BigMul(a.n, b.n), d |-> BigMul(a.d, b.d)]

RLess(a, b) == BigLess(BigMul(a.n, b.d), BigMul(b.n, a.d))

REq(a, b) == BigMul(a.n, b.d) = BigMul(b.n, a.d)

\* step_size = (end - start) / steps
StepSize(start, end, steps) == QDiv(QSub(end, start), QInt(steps))

\* x = start + i * step_size + step_size / 2.0 with the half step left out
SamplePoint_LeftEndpoint(start, step_size, k) ==
    QAdd(start, QMul(QInt(k), step_size))

\* x = start + i * step_size + step_size / 2.0
SamplePoint(start, step_size, k) ==
    QAdd(QAdd(start, QMul(QInt(k), step_size)), QDiv(step_size, QInt(2)))

\* 4.0 / (1.0 + x * x) with x for x * x
Integrand_NoSquare(x) == QDiv(QInt(4), QAdd(QInt(1), x))

\* 4.0 / (1.0 + x * x)
Integrand(x) == QDiv(QInt(4), QAdd(QInt(1), QMul(x, x)))

(***************************************************************************)
(* State.  The values of sum, partial_result and total_result are kept as  *)
(* the sums the code forms, term by term and in the order formed: sum is   *)
(* the sequence of the loop indices i whose 4 / (1 + x * x) it holds, a    *)
(* partial result is that sum with the call's arguments (they fix          *)
(* step_size and every x), and total_result is the sequence of the partial *)
(* results added to 0.0.                                                   *)
(***************************************************************************)
VARIABLES
    pc,                \* main's position
    cin_steps,         \* the number typed in for num_steps
    num_steps,         \* unsigned long long num_steps
    num_threads,       \* int num_threads
    total_result,      \* double total_result
    steps_per_thread,  \* unsigned long long steps_per_thread
    range_per_thread,  \* double range_per_thread
    i,                 \* the launch loop's int i
    threads,           \* std::vector<std::thread> threads, with each thread's frame
    joined,            \* how many threads the join loop has joined
    result_mutex,      \* std::mutex result_mutex: its owner, or Unlocked
    cout,              \* the results printed to std::cout
    exact              \* the evaluation in exact arithmetic (SpecIntegral, SpecPartition)

vars == <<pc, cin_steps, num_steps, num_threads, total_result, steps_per_thread,
          range_per_thread, i, threads, joined, result_mutex, cout, exact>>

Unlocked == 0 - 1

ULLONG_MOD == 2^ULLBits

StepInputs == (0 - MaxNegSteps)..(IF MaxSteps < ULLONG_MOD THEN MaxSteps ELSE ULLONG_MOD - 1)

ThreadInputs == (0 - 1)..MaxThreads

\* the phases of the orchestrator, by main's position
Phase ==
    CASE pc \in {"read", "validate"} -> "AwaitingInput"
      [] pc = "setup"  -> "Validated"
      [] pc = "spawn"  -> "Dispatched"
      [] pc = "join"   -> "Joining"
      [] pc = "exit0"  -> "Reported"
      [] pc = "exit1"  -> "Terminated"

\* a partial result not computed yet
NoResult == [start |-> DblZero, end |-> DblZero, steps |-> 0, sum |-> <<>>]

\* no evaluation in exact arithmetic under way
NoExact == [pc |-> "off"]

MainInit ==
    /\ pc = "read"
    /\ cin_steps = 0
    /\ num_steps = 0
    /\ num_threads = 0
    /\ total_result = <<>>
    /\ steps_per_thread = 0
    /\ range_per_thread = DblZero
    /\ i = 0
    /\ threads = <<>>
    /\ joined = 0
    /\ result_mutex = Unlocked
    /\ cout = <<>>

Init == MainInit /\ exact = NoExact

(***************************************************************************)
(* main                                                                    *)
(***************************************************************************)
\* std::cin >> num_steps: a number with a minus sign is negated in the
\* unsigned type
ReadUnsigned(v) == v % ULLONG_MOD

ReadInput(Steps, Threads) ==
    /\ pc = "read"
    /\ \E v \in Steps, n \in Threads :
         /\ cin_steps' = v
         /\ num_steps' = ReadUnsigned(v)
         /\ num_threads' = n
    /\ pc' = "validate"
    /\ UNCHANGED <<total_result, steps_per_thread, range_per_thread, i, threads,
                   joined, result_mutex, cout, exact>>

\* the check with its num_steps operand left out
Invalid_ThreadsOnly(steps, nthreads) == nthreads <= 0

Invalid(steps, nthreads) == nthreads <= 0 \/ steps <= 0

Validate ==
    /\ pc = "validate"
    /\ pc' = IF Invalid(num_steps, num_threads) THEN "exit1" ELSE "setup"
    /\ UNCHANGED <<cin_steps, num_steps, num_threads, total_result, steps_per_thread,
                   range_per_thread, i, threads, joined, result_mutex, cout, exact>>

\* the division rounded up instead of truncated
StepsPerThread_RoundUp(steps, nthreads) == (steps + nthreads - 1) \div nthreads

StepsPerThread(steps, nthreads) == steps \div nthreads

Setup ==
    /\ pc = "setup"
    /\ total_result' = <<>>
    /\ threads' = <<>>
    /\ steps_per_thread' = StepsPerThread(num_steps, num_threads)
    /\ range_per_thread' = DblOneOver(num_threads)
    /\ i' = 0
    /\ pc' = "spawn"
    /\ UNCHANGED <<cin_steps, num_steps, num_threads, joined, result_mutex, cout, exact>>

IntervalStart(k, range) == DblMulInt(k, range)

\* the end computed from the thread's own index, without the + 1
IntervalEnd_NoPlusOne(k, range) == DblMulInt(k, range)

IntervalEnd(k, range) == DblMulInt(k + 1, range)

\* the frame of a thread started on thread_worker(start, end, steps)
NewThread(start, end, steps) ==
    [pc |-> "call", start |-> start, end |-> end, steps |-> steps,
     i |-> 0, sum |-> <<>>, partial_result |-> NoResult, tmp |-> <<>>]

SpawnThread ==
    /\ pc = "spawn"
    /\ i < num_threads
    /\ threads' = [t \in 0..i |->
                     IF t = i
                     THEN NewThread(IntervalStart(i, range_per_thread),
                                    IntervalEnd(i, range_per_thread),
                                    steps_per_thread)
                     ELSE threads[t]]
    /\ i' = i + 1
    /\ UNCHANGED <<pc, cin_steps, num_steps, num_threads, total_result,
                   steps_per_thread, range_per_thread, joined, result_mutex, cout, exact>>

\* main going on to the report without the join loop
SpawnDone_NoJoin ==
    /\ pc = "spawn"
    /\ ~(i < num_threads)
    /\ pc' = "exit0"
    /\ joined' = 0
    /\ UNCHANGED <<cin_steps, num_steps, num_threads, total_result, steps_per_thread,
                   range_per_thread, i, threads, result_mutex, cout, exact>>

SpawnDone ==
    /\ pc = "spawn"
    /\ ~(i < num_threads)
    /\ pc' = "join"
    /\ joined' = 0
    /\ UNCHANGED <<cin_steps, num_steps, num_threads, total_result, steps_per_thread,
                   range_per_thread, i, threads, result_mutex, cout, exact>>

NumThreads == Cardinality(DOMAIN threads)

\* a join that does not wait
Joinable_NoWait(t) == TRUE

\* t.join() returns once the thread has finished
Joinable(t) == threads[t].pc = "done"

Join ==
    /\ pc = "join"
    /\ joined < NumThreads
    /\ Joinable(joined)
    /\ joined' = joined + 1
    /\ UNCHANGED <<pc, cin_steps, num_steps, num_threads, total_result,
                   steps_per_thread, range_per_thread, i, threads, result_mutex, cout, exact>>

Report ==
    /\ pc = "join"
    /\ ~(joined < NumThreads)
    /\ cout' = Append(cout, total_result)
    /\ pc' = "exit0"
    /\ UNCHANGED <<cin_steps, num_steps, num_threads, total_result, steps_per_thread,
                   range_per_thread, i, threads, joined, result_mutex, exact>>

(***************************************************************************)
(* thread_worker and calculate_partial_integral, run by thread t           *)
(***************************************************************************)
mainVars == <<pc, cin_steps, num_steps, num_threads, steps_per_thread,
              range_per_thread, i, joined, cout, exact>>

\* the lock_guard placed before the call of calculate_partial_integral
Call_LockFirst(t) ==
    /\ threads[t].pc = "call"
    /\ result_mutex = Unlocked
    /\ result_mutex' = t
    /\ threads' = [threads EXCEPT ![t].sum = <<>>, ![t].i = 0, ![t].pc = "loop"]
    /\ UNCHANGED <<mainVars, total_result>>

Call(t) ==
    /\ threads[t].pc = "call"
    /\ threads' = [threads EXCEPT ![t].sum = <<>>, ![t].i = 0, ![t].pc = "loop"]
    /\ UNCHANGED <<mainVars, total_result, result_mutex>>

\* the loop counting its steps argument down
LoopStep_CountDown(t) ==
    /\ threads[t].pc = "loop"
    /\ threads[t].i < threads[t].steps
    /\ threads' = [threads EXCEPT ![t].sum = Append(@, threads[t].i),
                                  ![t].steps = @ - 1]
    /\ UNCHANGED <<mainVars, total_result, result_mutex>>

LoopStep(t) ==
    /\ threads[t].pc = "loop"
    /\ threads[t].i < threads[t].steps
    /\ threads' = [threads EXCEPT ![t].sum = Append(@, threads[t].i),
                                  ![t].i = @ + 1]
    /\ UNCHANGED <<mainVars, total_result, result_mutex>>

Return(t) ==
    /\ threads[t].pc = "loop"
    /\ ~(threads[t].i < threads[t].steps)
    /\ threads' = [threads EXCEPT
                     ![t].partial_result =
                         [start |-> threads[t].start, end |-> threads[t].end,
                          steps |-> threads[t].steps, sum |-> threads[t].sum],
                     ![t].pc = "lock"]
    /\ UNCHANGED <<mainVars, total_result, result_mutex>>

\* a lock that is granted whether or not the mutex is held
CanLock_Always(m) == TRUE

CanLock(m) == m = Unlocked

Lock(t) ==
    /\ threads[t].pc = "lock"
    /\ CanLock(result_mutex)
    /\ result_mutex' = t
    /\ threads' = [threads EXCEPT ![t].pc = "load"]
    /\ UNCHANGED <<mainVars, total_result>>

Load(t) ==
    /\ threads[t].pc = "load"
    /\ threads' = [threads EXCEPT ![t].tmp = total_result, ![t].pc = "store"]
    /\ UNCHANGED <<mainVars, total_result, result_mutex>>

\* the add written as an assignment
Store_Overwrite(t) ==
    /\ threads[t].pc = "store"
    /\ total_result' = <<threads[t].partial_result>>
    /\ threads' = [threads EXCEPT ![t].pc = "unlock"]
    /\ UNCHANGED <<mainVars, result_mutex>>

Store(t) ==
    /\ threads[t].pc = "store"
    /\ total_result' = Append(threads[t].tmp, threads[t].partial_result)
    /\ threads' = [threads EXCEPT ![t].pc = "unlock"]
    /\ UNCHANGED <<mainVars, result_mutex>>

\* a worker that ends without releasing the mutex
Unlock_KeepsLock(t) ==
    /\ threads[t].pc = "unlock"
    /\ threads' = [threads EXCEPT ![t].pc = "done"]
    /\ UNCHANGED <<mainVars, total_result, result_mutex>>

Unlock(t) ==
    /\ threads[t].pc = "unlock"
    /\ result_mutex' = Unlocked
    /\ threads' = [threads EXCEPT ![t].pc = "done"]
    /\ UNCHANGED <<mainVars, total_result>>

\* the value calculate_partial_integral(start, end, steps) returns: the sum
\* over i = 0 .. steps-1, in that order, with the arguments that fix step_size
PartialIntegralTerm(start, end, steps) ==
    [start |-> start, end |-> end, steps |-> steps,
     sum |-> [k \in 1..steps |-> k - 1]]

Worker(t) ==
    \/ Call(t)
    \/ LoopStep(t)
    \/ Return(t)
    \/ Lock(t)
    \/ Load(t)
    \/ Store(t)
    \/ Unlock(t)

Main ==
    \/ Validate
    \/ Setup
    \/ SpawnThread
    \/ SpawnDone
    \/ Join
    \/ Report

Next ==
    \/ ReadInput(StepInputs, ThreadInputs)
    \/ Main
    \/ \E t \in DOMAIN threads : Worker(t)

Spec == Init /\ [][Next]_vars

FairStepInputs == 0..MaxFairSteps

NextFair ==
    \/ ReadInput(FairStepInputs, ThreadInputs)
    \/ Main
    \/ \E t \in DOMAIN threads : Worker(t)

\* the scheduler lets main and every started thread run
FairSpec ==
    /\ Init /\ [][NextFair]_vars
    /\ WF_vars(Main)
    /\ \A t \in 0..(MaxThreads - 1) : WF_vars(t \in DOMAIN threads /\ Worker(t))

(***************************************************************************)
(* The launch loop on its own, for larger thread counts: the runs in which *)
(* no started thread has been scheduled before the loop ends.              *)
(***************************************************************************)
DispatchThreadInputs == 1..MaxDispatchThreads

NextDispatch ==
    \/ ReadInput({1}, DispatchThreadInputs)
    \/ Validate
    \/ Setup
    \/ SpawnThread
    \/ SpawnDone

SpecDispatch == Init /\ [][NextDispatch]_vars

(***************************************************************************)
(* calculate_partial_integral in exact arithmetic.  exact holds the frame  *)
(* of the call under way (start, end, steps, step_size, i, sum, and xs,    *)
(* the sample points x evaluated so far) and, under SpecPartition, the     *)
(* thread count n, the steps per thread s, the workers done, their sample  *)
(* points, and the total of their results.                                 *)
(***************************************************************************)
\* with grid g the arguments start < end range over -g/g, ..., g/g
ExactGrid == 2
MaxExactSteps == 2
MaxIntegralSteps == 3
MaxExactThreads == 3

ExactCall(e, start, end, steps) ==
    [e EXCEPT !.pc = "loop", !.start = start, !.end = end, !.steps = steps,
              !.step_size = StepSize(start, end, steps),
              !.i = 0, !.sum = RZero, !.xs = {}]

ExactIdle ==
    [pc |-> "pick", n |-> 0, s |-> 0, done |-> {}, samples |-> <<>>,
     total |-> RZero, cur |-> 0, start |-> QInt(0), end |-> QInt(0), steps |-> 0,
     step_size |-> QInt(0), i |-> 0, sum |-> RZero, xs |-> {}, result |-> RZero]

ExactStep ==
    /\ exact.pc = "loop"
    /\ exact.i < exact.steps
    /\ LET x == SamplePoint(exact.start, exact.step_size, exact.i)
       IN exact' = [exact EXCEPT !.sum = RAdd(@, R(Integrand(x))),
                                 !.xs = @ \cup {x},
                                 !.i = @ + 1]
    /\ UNCHANGED <<pc, cin_steps, num_steps, num_threads, total_result,
                   steps_per_thread, range_per_thread, i, threads, joined,
                   result_mutex, cout>>

ExactReturn ==
    /\ exact.pc = "loop"
    /\ ~(exact.i < exact.steps)
    /\ exact' = [exact EXCEPT !.result = RMul(exact.sum, R(exact.step_size)),
                              !.pc = "ret"]
    /\ UNCHANGED <<pc, cin_steps, num_steps, num_threads, total_result,
                   steps_per_thread, range_per_thread, i, threads, joined,
                   result_mutex, cout>>

\* one call, on any start < end of the grid and any steps >= 1
IntegralInputs ==
    {ExactCall(ExactIdle, Q(ab[1], ExactGrid), Q(ab[2], ExactGrid), st) :
        ab \in {p \in ((0 - ExactGrid)..ExactGrid) \X ((0 - ExactGrid)..ExactGrid) :
                    p[1] < p[2]},
        st \in 1..MaxIntegralSteps}

InitIntegral == MainInit /\ exact \in IntegralInputs

NextIntegral ==
    \/ ExactStep
    \/ ExactReturn

SpecIntegral == InitIntegral /\ [][NextIntegral]_vars

\* range_per_thread = 1.0 / num_threads
ExactRange(n) == QDiv(QInt(1), QInt(n))

\* start = i * range_per_thread
ExactStart(k, range) == QMul(QInt(k), range)

\* end = (i + 1) * range_per_thread
ExactEnd(k, range) == QMul(QInt(k + 1), range)

PartitionInputs ==
    {[ExactIdle EXCEPT !.n = n, !.s = st] :
        n \in 1..MaxExactThreads, st \in 1..MaxExactSteps}

InitPartition == MainInit /\ exact \in PartitionInputs

\* worker w runs its call (the workers add in the order they get the lock)
PartitionWorker ==
    /\ exact.pc = "pick"
    /\ \E w \in (0..(exact.n - 1)) \ exact.done :
         exact' = ExactCall([exact EXCEPT !.cur = w],
                            ExactStart(w, ExactRange(exact.n)),
                            ExactEnd(w, ExactRange(exact.n)),
                            exact.s)
    /\ UNCHANGED <<pc, cin_steps, num_steps, num_threads, total_result,
                   steps_per_thread, range_per_thread, i, threads, joined,
                   result_mutex, cout>>

\* total_result += partial_result
PartitionAdd ==
    /\ exact.pc = "ret"
    /\ exact.cur < exact.n
    /\ exact' = [exact EXCEPT
                   !.total = RAdd(@, exact.result),
                   !.samples = [w \in exact.done \cup {exact.cur} |->
                                   IF w = exact.cur THEN exact.xs ELSE exact.samples[w]],
                   !.done = @ \cup {exact.cur},
                   !.pc = "pick"]
    /\ UNCHANGED <<pc, cin_steps, num_steps, num_threads, total_result,
                   steps_per_thread, range_per_thread, i, threads, joined,
                   result_mutex, cout>>

\* for comparison, one call over [0,1] with n * s steps
PartitionSingle ==
    /\ exact.pc = "pick"
    /\ exact.done = 0..(exact.n - 1)
    /\ exact' = ExactCall([exact EXCEPT !.cur = exact.n],
                          QInt(0), QInt(1), exact.n * exact.s)
    /\ UNCHANGED <<pc, cin_steps, num_steps, num_threads, total_result,
                   steps_per_thread, range_per_thread, i, threads, joined,
                   result_mutex, cout>>

NextPartition ==
    \/ PartitionWorker
    \/ ExactStep
    \/ ExactReturn
    \/ PartitionAdd
    \/ PartitionSingle

SpecPartition == InitPartition /\ [][NextPartition]_vars

(***************************************************************************)
(* Properties                                                              *)
(***************************************************************************)
Started == DOMAIN threads

InCritical(t) == threads[t].pc \in {"load", "store", "unlock"}

Added(t) == threads[t].pc \in {"unlock", "done"}

\* how often partial result p occurs among the addends of total r
Occurrences(r, p) == Cardinality({k \in 1..Len(r) : r[k] = p})

ValidInput == pc \notin {"read", "validate", "exit1"}

AllWorkersDone ==
    /\ NumThreads = num_threads
    /\ \A t \in Started : threads[t].pc = "done"

\* C1, state part: at most one worker is between lock and unlock, it is the
\* owner of result_mutex, and total_result holds the contribution of exactly
\* the workers that have executed their add (none is lost).
C1_Exclusion ==
    /\ \A t, u \in Started : InCritical(t) /\ InCritical(u) => t = u
    /\ \A t \in Started : InCritical(t) <=> result_mutex = t
    /\ \A t \in Started :
         Occurrences(total_result, threads[t].partial_result)
            = IF Added(t) THEN 1 ELSE 0
    /\ Len(total_result) = Cardinality({t \in Started : Added(t)})

\* C1, step part: total_result changes only in a step of the worker that holds
\* result_mutex, and that step adds the worker's partial result to the value
\* total_result has at that moment (its read-add-write is not interleaved).
C1_WriteUnderLock ==
    total_result' # total_result =>
        \E t \in Started :
            /\ result_mutex = t
            /\ threads[t].pc = "store"
            /\ total_result' = Append(total_result, threads[t].partial_result)

\* C1: mutual exclusion on total_result: one worker at most in the critical
\* section, writes only by the holder of result_mutex, no contribution lost.
C1_MutualExclusion == [](C1_Exclusion) /\ [][C1_WriteUnderLock]_vars

C1_Witness ==
    \E t, u \in Started :
        /\ t # u
        /\ threads[t].pc = "store"
        /\ threads[u].pc = "lock"
        /\ Len(total_result) = 1

\* C2: the result is printed only once all num_threads workers have been
\* started and have finished, with result_mutex released.
C2_ReportAfterJoin ==
    (cout # <<>> \/ pc = "exit0") => (AllWorkersDone /\ result_mutex = Unlocked)

C2_Witness == pc = "exit0" /\ Len(cout) = 1 /\ num_threads = 2 /\ num_steps = 2

\* C3: for valid input total_result starts at 0, never holds more than
\* num_threads contributions, holds each worker's partial result once after its
\* add and not before, and the value printed is the sum of the partial results
\* of exactly the workers 0 .. num_threads-1.
C3_ExactlyOnce ==
    ValidInput =>
        /\ pc \in {"setup", "spawn"} /\ NumThreads = 0 => total_result = <<>>
        /\ Len(total_result) <= num_threads
        /\ \A t \in Started :
             Occurrences(total_result, threads[t].partial_result)
                = IF Added(t) THEN 1 ELSE 0
        /\ pc = "exit0" =>
             /\ cout = <<total_result>>
             /\ Started = 0..(num_threads - 1)
             /\ Len(total_result) = num_threads
             /\ \A t \in Started :
                  /\ threads[t].partial_result.sum = threads[t].sum
                  /\ Occurrences(total_result, threads[t].partial_result) = 1

C3_Witness ==
    /\ pc = "exit0"
    /\ num_threads = 3
    /\ Len(total_result) = 3
    /\ total_result[1] = threads[2].partial_result

\* C4: with num_threads <= 0 or num_steps = 0 the program leaves validation
\* with exit status 1: no thread is started, total_result is not written and
\* nothing is printed.
C4_InvalidInputExits ==
    (pc # "read" /\ (num_threads <= 0 \/ num_steps = 0)) =>
        /\ pc \in {"validate", "exit1"}
        /\ threads = <<>>
        /\ total_result = <<>>
        /\ cout = <<>>

C4_Witness == pc = "exit1" /\ num_steps = 0 /\ num_threads = MaxThreads

\* C5: a negative number entered for num_steps is rejected: exit status 1 and
\* no thread started.
C5_NegativeStepsRejected ==
    (cin_steps < 0 /\ pc \notin {"read", "validate"}) =>
        (pc = "exit1" /\ threads = <<>>)

\* C6: every call of calculate_partial_integral has steps >= 1 and start < end.
C6_CallPrecondition ==
    \A t \in Started :
        threads[t].pc # "call" =>
            (threads[t].steps >= 1 /\ DblLess(threads[t].start, threads[t].end))

RECURSIVE Evaluated(_)
\* the number of sample points evaluated by the threads 0 .. n-1
Evaluated(n) == IF n = 0 THEN 0 ELSE Len(threads[n - 1].sum) + Evaluated(n - 1)

\* C7: every worker gets floor(num_steps / num_threads) steps and evaluates
\* that many sample points, so num_threads * floor(num_steps / num_threads) are
\* evaluated in all and the remainder goes to no worker.
C7_StepTruncation ==
    ValidInput =>
        /\ \A t \in Started :
             /\ threads[t].steps = num_steps \div num_threads
             /\ Len(threads[t].sum) <= threads[t].steps
             /\ threads[t].pc \notin {"call", "loop"} =>
                  Len(threads[t].sum) = num_steps \div num_threads
        /\ pc = "exit0" =>
             /\ Evaluated(NumThreads) = num_threads * (num_steps \div num_threads)
             /\ Evaluated(NumThreads) = num_steps - (num_steps % num_threads)

C7_Witness ==
    /\ pc = "exit0"
    /\ num_steps = 10
    /\ num_threads = 3
    /\ \A t \in Started : threads[t].steps = 3
    /\ Evaluated(NumThreads) = 9

\* C8: once all threads are launched their intervals partition [0,1]: each has
\* start < end, each ends where the next starts, the first starts at 0 and the
\* last ends at exactly 1.
C8_IntervalsPartition ==
    pc = "join" =>
        /\ \A t \in Started : DblLess(threads[t].start, threads[t].end)
        /\ \A t \in Started : t + 1 \in Started => threads[t].end = threads[t + 1].start
        /\ threads[0].start = DblZero
        /\ threads[num_threads - 1].end = DblOne

PhaseRank(p) ==
    CASE p = "AwaitingInput" -> 0
      [] p = "Validated"     -> 1
      [] p = "Dispatched"    -> 2
      [] p = "Joining"       -> 3
      [] p = "Reported"      -> 4
      [] p = "Terminated"    -> 5

C9_PhaseMove ==
    \/ Phase' = Phase
    \/ Phase # "Terminated" /\ Phase' # "Terminated"
         /\ PhaseRank(Phase') = PhaseRank(Phase) + 1
    \/ Phase = "AwaitingInput" /\ Phase' = "Terminated"

C9_Final == (~ENABLED Next) <=> Phase \in {"Reported", "Terminated"}

\* C9: the phase changes only to the next of AwaitingInput, Validated,
\* Dispatched, Joining, Reported, or from AwaitingInput to Terminated; the
\* states without a successor are those in Reported or Terminated.
C9_PhaseOrder == [][C9_PhaseMove]_vars /\ [](C9_Final)

C9_Witness == Phase = "Reported" /\ num_threads = 3 /\ num_steps = 3

\* C10: under fair scheduling every validated run reaches Reported, every
\* started worker finishes, and no state short of Reported or Terminated is
\* without a successor.
C10_Termination ==
    /\ (pc = "setup") ~>
         (pc = "exit0" /\ AllWorkersDone /\ joined = num_threads
            /\ Len(total_result) = num_threads)
    /\ [](ENABLED Next \/ pc \in {"exit0", "exit1"})

C10_Witness ==
    /\ pc = "join"
    /\ joined = 0
    /\ \E t, u \in Started :
         /\ threads[t].pc = "lock"
         /\ result_mutex = u
         /\ threads[0].pc # "done"

\* C11: with num_threads = 1 the one worker is started on start 0, end 1 and
\* num_steps steps, and the total printed is 0.0 plus the result of that single
\* call of calculate_partial_integral(0, 1, num_steps), nothing else.
C11_SingleThread ==
    (ValidInput /\ num_threads = 1) =>
        /\ \A t \in Started :
             /\ t = 0
             /\ threads[t].start = DblZero
             /\ threads[t].end = DblOne
             /\ threads[t].steps = num_steps
        /\ Len(total_result) <= 1
        /\ pc = "exit0" =>
             /\ total_result = <<PartialIntegralTerm(DblZero, DblOne, num_steps)>>
             /\ cout = <<total_result>>

C11_Witness ==
    /\ pc = "exit0"
    /\ num_threads = 1
    /\ num_steps = 4
    /\ Len(total_result[1].sum) = 4

WorkerRank(p) ==
    CASE p = "call"   -> 0
      [] p = "loop"   -> 1
      [] p = "lock"   -> 2
      [] p = "load"   -> 3
      [] p = "store"  -> 4
      [] p = "unlock" -> 5
      [] p = "done"   -> 6

\* C12, state part: a worker in its integration loop does not hold
\* result_mutex and can always take its next step; the holder of result_mutex
\* has its partial result computed.
C12_NoLockInLoop ==
    \A t \in Started :
        /\ threads[t].pc \in {"call", "loop"} =>
             /\ result_mutex # t
             /\ ENABLED (Call(t) \/ LoopStep(t) \/ Return(t))
        /\ result_mutex = t =>
             threads[t].partial_result =
                 PartialIntegralTerm(threads[t].start, threads[t].end, threads[t].steps)

\* C12, step part: a worker never moves back, takes result_mutex only in the
\* step from "lock" and gives it up only in the step to "done", its partial
\* result then added once.
C12_LockStep ==
    \A t \in Started :
        /\ WorkerRank(threads'[t].pc) >= WorkerRank(threads[t].pc)
        /\ (result_mutex' = t /\ result_mutex # t) =>
             (threads[t].pc = "lock" /\ threads'[t].pc = "load")
        /\ (result_mutex = t /\ result_mutex' # t) =>
             /\ result_mutex' = Unlocked
             /\ threads'[t].pc = "done"
             /\ Occurrences(total_result', threads[t].partial_result) = 1

\* C12: no worker holds result_mutex while it integrates; each takes it once,
\* after calculate_partial_integral has returned, adds once and releases it.
C12_LockOnlyForAdd == [](C12_NoLockInLoop) /\ [][C12_LockStep]_vars

C12_Witness ==
    \E t, u \in Started :
        /\ t # u
        /\ threads[t].pc = "loop"
        /\ threads[t].i = 1
        /\ threads[u].pc = "store"

\* C14, step part: between dispatch and report the inputs and the per-thread
\* step count and range do not change; a started worker keeps its start, end
\* and steps, and its partial result once computed; a step that changes one
\* worker's frame changes no other frame and nothing of main's.
C14_FrameStep ==
    /\ pc \in {"spawn", "join"} =>
         /\ num_steps' = num_steps
         /\ num_threads' = num_threads
         /\ steps_per_thread' = steps_per_thread
         /\ range_per_thread' = range_per_thread
    /\ \A t \in Started :
         /\ t \in DOMAIN threads'
         /\ threads'[t].start = threads[t].start
         /\ threads'[t].end = threads[t].end
         /\ threads'[t].steps = threads[t].steps
         /\ threads[t].pc \notin {"call", "loop"} =>
              threads'[t].partial_result = threads[t].partial_result
         /\ threads'[t] # threads[t] =>
              /\ UNCHANGED mainVars
              /\ \A u \in Started \ {t} : threads'[u] = threads[u]
    /\ (total_result' # total_result \/ result_mutex' # result_mutex) =>
         UNCHANGED mainVars

\* C14: workers change only total_result and the lock; the inputs, the
\* per-thread step count and range, and every worker's start, end, steps and
\* partial result are left alone by all other workers.
C14_Frame == [][C14_FrameStep]_vars

C14_Witness ==
    /\ pc = "join"
    /\ \E t, u \in Started :
         /\ threads[t].pc = "done"
         /\ threads[u].pc = "loop"
         /\ threads[u].i = 2

\* 4 * (end - start) for the call in exact
ExactBound == R(QMul(QInt(4), QSub(exact.end, exact.start)))

\* C13 as stated: the value returned is strictly between 0 and
\* 4 * (end - start).
C13_StrictBounds ==
    exact.pc = "ret" =>
        (RLess(RZero, exact.result) /\ RLess(exact.result, ExactBound))

\* C13 as amended: the value returned is greater than 0 and at most
\* 4 * (end - start); it is equal to 4 * (end - start) exactly when steps = 1
\* and start = -end (the one sample point is 0), so never when start >= 0.
C13_Bounds ==
    exact.pc = "ret" =>
        /\ RLess(RZero, exact.result)
        /\ ~RLess(ExactBound, exact.result)
        /\ REq(exact.result, ExactBound) <=>
             (exact.steps = 1 /\ QAdd(exact.start, exact.end) = QInt(0))
        /\ ~QLess(exact.start, QInt(0)) => RLess(exact.result, ExactBound)

C13_Witness ==
    /\ exact.pc = "ret"
    /\ exact.steps = 1
    /\ QAdd(exact.start, exact.end) = QInt(0)
    /\ REq(exact.result, ExactBound)

\* the sample points of one call over [0,1] with m steps
MidPoints(m) == {Q(2 * k + 1, 2 * m) : k \in 0..(m - 1)}

\* C15: with steps_per_thread >= 1, in exact arithmetic, every sample point of
\* worker w lies strictly inside (w/n, (w+1)/n), no two workers share a sample
\* point, all workers together evaluate exactly the points (2k+1)/(2M),
\* M = n * steps_per_thread, and their total equals one call over [0,1] with M
\* steps.
C15_SamplePoints ==
    /\ \A w \in exact.done :
         /\ Cardinality(exact.samples[w]) = exact.s
         /\ \A x \in exact.samples[w] :
              QLess(Q(w, exact.n), x) /\ QLess(x, Q(w + 1, exact.n))
         /\ \A v \in exact.done \ {w} : exact.samples[w] \cap exact.samples[v] = {}
    /\ exact.done = 0..(exact.n - 1) =>
         UNION {exact.samples[w] : w \in exact.done} = MidPoints(exact.n * exact.s)
    /\ (exact.pc = "ret" /\ exact.cur = exact.n) =>
         /\ exact.xs = MidPoints(exact.n * exact.s)
         /\ REq(exact.total, exact.result)

C15_Witness ==
    /\ exact.pc = "ret"
    /\ exact.cur = exact.n
    /\ exact.n = 3
    /\ exact.s = 2
    /\ exact.samples[1] = {Q(5, 12), Q(7, 12)}

====
